---------------------------- MODULE Spec2Model ----------------------------
(***************************************************************************)
(* A model of the NOFUS config file parser, src/configfile.py.             *)
(*                                                                         *)
(* Text is a sequence of one-character strings; Python's None, True and    *)
(* False are the marker values PyNone, PyTrue and PyFalse, which no text   *)
(* equals.  Positions are Python's: the first character is at index 0.     *)
(*                                                                         *)
(* src/configfile.py is a port in progress and holds statements that do    *)
(* not compile or that name the wrong object (line 224 `else` without a    *)
(* colon, line 315 `for .. as ..`, line 425 quote_val_patterns for the     *)
(* pattern string built on line 423, line 445 get_quoted_value without its *)
(* call, line 455 re.compile for re.escape, line 456 an unclosed           *)
(* parenthesis).  Each of these is read as the statement it is written to  *)
(* be; everything else is modelled as written, the regular expressions     *)
(* character by character.                                                 *)
(*                                                                         *)
(* The methods process_line, has_valid_variable_name, get_post_delimiter,  *)
(* get, get_array and enumerate_scope are called by the file or its tests  *)
(* and are not defined in it; they are modelled from spec.md and from      *)
(* what src/tests.py asserts of them.                                      *)
(***************************************************************************)
EXTENDS Integers, Sequences, FiniteSets, TLC

VARIABLES file_path, loaded, current_scope, errors, values, history, call

vars == <<file_path, loaded, current_scope, errors, values, history, call>>

objvars == <<file_path, loaded, current_scope, errors, values, history>>

(***************************************************************************)
(* Python values that are not text.                                        *)
(***************************************************************************)
PyNone == <<"<None>">>

PyTrue == <<"<True>">>

PyFalse == <<"<False>">>

(***************************************************************************)
(* The static parse values set by the constructor.                         *)
(***************************************************************************)
line_comment_start == << <<"#">>, <<"/", "/">> >>

var_val_delimiter == <<"=">>

scope_delimiter == <<".">>

quote_char == "\""

escape_char == "\\"

\* The members of the class a-zA-Z0-9_\- that the modelled lines use.
varname_char_set == {"a", "b", "c", "k", "1", "2", "_", "-"}

scope_char_set == {"a", "b", "c", "k", "1", "2", "_", "-"}

\* The characters the regular expressions' \s matches, among those modelled.
Whitespace == {" "}

(***************************************************************************)
(* Python's string operations.                                             *)
(***************************************************************************)
SetMin(S) == CHOOSE x \in S : \A y \in S : x <= y

\* s[a:b]
Slice(s, a, b) == SubSeq(s, a + 1, b)

\* s[i]
At(s, i) == s[i + 1]

\* s.startswith(sub, i)
StartsAt(s, sub, i) ==
    /\ i >= 0
    /\ i + Len(sub) <= Len(s)
    /\ SubSeq(s, i + 1, i + Len(sub)) = sub

\* s.find(sub, offset): the lowest index at or after offset, -1 when there is none
Find(s, sub, offset) ==
    LET hits == {i \in offset..(Len(s) - Len(sub)) : StartsAt(s, sub, i)}
    IN  IF hits = {} THEN -1 ELSE SetMin(hits)

\* The index of the first character at or after i that is not whitespace (\s*).
SkipSpaces(s, i) ==
    LET rest == {j \in i..(Len(s) - 1) : At(s, j) \notin Whitespace}
    IN  IF rest = {} THEN Len(s) ELSE SetMin(rest)

\* s.lstrip()
LStrip(s) == Slice(s, SkipSpaces(s, 0), Len(s))

\* s.strip()
Strip(s) ==
    LET keep == {j \in 0..(Len(s) - 1) : At(s, j) \notin Whitespace}
    IN  IF keep = {} THEN <<>>
        ELSE Slice(s, SetMin(keep), (CHOOSE x \in keep : \A y \in keep : y <= x) + 1)

(***************************************************************************)
(* Pieces the regular expressions share.                                   *)
(***************************************************************************)
\* A comment start stands at index i: the alternation built from line_comment_start.
CommentAt(s, i) ==
    \E k \in 1..Len(line_comment_start) : StartsAt(s, line_comment_start[k], i)

\* \s*(?:(comment start).*)?$ matches from index i on.
TailMatches(s, i) ==
    LET q == SkipSpaces(s, i)
    IN  q = Len(s) \/ CommentAt(s, q)

\* The end of the longest run [set]+ starting at i (i itself when there is none).
RunEnd(s, set, i) ==
    LET stops == {j \in i..(Len(s) - 1) : At(s, j) \notin set}
    IN  IF stops = {} THEN (IF i > Len(s) THEN i ELSE Len(s)) ELSE SetMin(stops)

\* The end of the longest match of [set]+(?:delim[set]+)* continuing from index e,
\* the end of a segment already matched.
RECURSIVE MoreSegments(_, _, _)
MoreSegments(s, set, e) ==
    IF StartsAt(s, scope_delimiter, e)
       /\ RunEnd(s, set, e + Len(scope_delimiter)) > e + Len(scope_delimiter)
    THEN MoreSegments(s, set, RunEnd(s, set, e + Len(scope_delimiter)))
    ELSE e

\* The end of the longest match of [set]+(?:delim[set]+)* starting at i, or i.
DottedEnd(s, set, i) ==
    IF RunEnd(s, set, i) > i THEN MoreSegments(s, set, RunEnd(s, set, i)) ELSE i

(***************************************************************************)
(* find_line_comment_position.  Python's False is FalsePos; the test       *)
(* `start == False` is true of False and of 0, and `x != False` is its     *)
(* negation.                                                               *)
(***************************************************************************)
FalsePos == -1

PyEqFalse(x) == x = FalsePos \/ x = 0

RECURSIVE CommentScan(_, _, _, _)
CommentScan(line, search_offset, k, start) ==
    IF k > Len(line_comment_start) THEN start
    ELSE LET start_check == Find(line, line_comment_start[k], search_offset)
         IN  IF start_check # -1 /\ (PyEqFalse(start) \/ start_check < start)
             THEN CommentScan(line, search_offset, k + 1, start_check)
             ELSE CommentScan(line, search_offset, k + 1, start)

find_line_comment_position(line, search_offset) ==
    CommentScan(line, search_offset, 1, FalsePos)

(***************************************************************************)
(* Line shapes.                                                            *)
(***************************************************************************)
\* ^\s*[names]+(?:\.[names]+)*\s*(?:delimiter.*|(comment start).*)?$
has_valid_variable_name(line) ==
    LET a == SkipSpaces(line, 0)
        e == DottedEnd(line, varname_char_set, a)
        c == SkipSpaces(line, e)
    IN  /\ e > a
        /\ \/ c = Len(line)
           \/ StartsAt(line, var_val_delimiter, c)
           \/ CommentAt(line, c)

\* The name has_valid_variable_name matched.
get_variable_name(line) ==
    LET a == SkipSpaces(line, 0)
    IN  Slice(line, a, DottedEnd(line, varname_char_set, a))

\* ^[^delim]+delim
has_value_delimiter(line) ==
    /\ has_valid_variable_name(line)
    /\ Find(line, var_val_delimiter, 0) >= 1

\* The text after the first delimiter, leading whitespace trimmed.
get_post_delimiter(line) ==
    LET i == Find(line, var_val_delimiter, 0)
    IN  IF i = -1 THEN <<>>
        ELSE LStrip(Slice(line, i + Len(var_val_delimiter), Len(line)))

\* ^[^delim]+delim\s*quote(?:escape quote|[^delim])*(?<!escape)quote\s*(?:(comment).*)?$
\* The body's two alternatives both take characters other than the delimiter, so a
\* closing quote at p matches when no delimiter stands between the quotes.
has_quoted_value(line) ==
    /\ has_valid_variable_name(line)
    /\ LET i == Find(line, var_val_delimiter, 0)
           j == SkipSpaces(line, i + Len(var_val_delimiter))
       IN  /\ i >= 1
           /\ j < Len(line)
           /\ At(line, j) = quote_char
           /\ \E p \in (j + 1)..(Len(line) - 1) :
                 /\ At(line, p) = quote_char
                 /\ At(line, p - 1) # escape_char
                 /\ \A q \in (j + 1)..(p - 1) : ~StartsAt(line, var_val_delimiter, q)
                 /\ TailMatches(line, p + 1)

\* ^[^delim]+delim\s*quote((?:escape quote|[^quote])*)(?<!escape)quote\s*(?:(comment).*)?$
\* Every quote of the body follows an escape character, and the closing quote
\* follows none: the closing quote is the first quote after the opening one that
\* no escape character precedes.  group(1) is the text between the two.
get_quoted_value(line) ==
    IF ~has_valid_variable_name(line) THEN <<>>
    ELSE LET i == Find(line, var_val_delimiter, 0)
             j == SkipSpaces(line, i + Len(var_val_delimiter))
             closers == {p \in (j + 1)..(Len(line) - 1) :
                            At(line, p) = quote_char /\ At(line, p - 1) # escape_char}
         IN  IF i >= 1 /\ j < Len(line) /\ At(line, j) = quote_char
                /\ closers # {} /\ TailMatches(line, SetMin(closers) + 1)
             THEN Slice(line, j + 1, SetMin(closers))
             ELSE <<>>

\* re.sub(escape(.), \1, value): left to right, an escape character and the
\* character after it become that character.
RECURSIVE Unescape(_)
Unescape(value) ==
    IF value = <<>> THEN <<>>
    ELSE IF Head(value) = escape_char /\ Len(value) >= 2
         THEN <<value[2]>> \o Unescape(SubSeq(value, 3, Len(value)))
         ELSE <<Head(value)>> \o Unescape(Tail(value))

\* UnquotedValue as it would be if the comment were left on the value.
UnquotedValueNoCut(line) == Strip(get_post_delimiter(line))

\* The unquoted branch of get_variable_value: cut at the comment, then strip.
UnquotedValue(line) ==
    LET value == get_post_delimiter(line)
        comment_start == find_line_comment_position(value, 0)
    IN  Strip(IF ~PyEqFalse(comment_start) THEN Slice(value, 0, comment_start)
              ELSE value)

get_variable_value(line) ==
    IF ~has_valid_variable_name(line) THEN PyFalse
    ELSE IF ~has_value_delimiter(line) THEN PyTrue
    ELSE Unescape(IF has_quoted_value(line) THEN get_quoted_value(line)
                  ELSE UnquotedValue(line))


(***************************************************************************)
(* Lines handed to get_variable_value.  A line is given by its parts and   *)
(* rendered to the text the parser reads.                                  *)
(***************************************************************************)
MaxContent == 3

MaxValueLen == 4

MaxComment == 1

\* All texts over alphabet of length at most n.
Str(alphabet, n) == UNION {[1..m -> alphabet] : m \in 0..n}

ContentAlphabet == {"a", " ", quote_char, escape_char, "#", "/", "="}

CommentAlphabet == {"a", "=", quote_char}

CommentTexts ==
    {<<>>} \cup
    {line_comment_start[k] \o t :
        k \in 1..Len(line_comment_start), t \in Str(CommentAlphabet, MaxComment)}

\* What may follow a value or a name: whitespace, then a comment or nothing.
Trails == {w \o c : w \in {<<>>, <<" ">>}, c \in CommentTexts}

\* The escape character put before every quote and escape character of s.
RECURSIVE Escaped(_)
Escaped(s) ==
    IF s = <<>> THEN <<>>
    ELSE (IF Head(s) \in {quote_char, escape_char} THEN <<escape_char, Head(s)>>
          ELSE <<Head(s)>>) \o Escaped(Tail(s))

ValueInputs ==
    [kind : {"quoted"}, body : Str(ContentAlphabet, MaxContent), trail : Trails]
    \cup [kind : {"unquoted"}, body : Str(ContentAlphabet, MaxValueLen), trail : {<<>>}]
    \cup [kind : {"flag"}, body : {<<>>}, trail : Trails]

Render(in) ==
    CASE in.kind = "quoted" ->
            <<"k", " ", "=", " ", quote_char>> \o Escaped(in.body)
                \o <<quote_char>> \o in.trail
      [] in.kind = "unquoted" -> <<"k", "=">> \o in.body
      [] in.kind = "flag" -> <<"k">> \o in.trail

\* The path src/tests.py constructs its objects with.
test1_file == <<"t", "e", "s", "t", "1", ".", "c", "o", "n", "f">>

\* What __init__ may be given: nothing, or the path of a file.
ConstructorArgs == {PyNone, test1_file}

\* The call that constructs the object.
Constructed(file_to_open) ==
    [op |-> "__init__", arg |-> file_to_open, line |-> <<>>, ret |-> PyNone]

(***************************************************************************)
(* The object after construction: file_path stays None whatever __init__   *)
(* is given, since it assigns file_to_open to a local name (lines 148-149).*)
(***************************************************************************)
InitObject ==
    /\ file_path = PyNone
    /\ loaded = FALSE
    /\ current_scope = <<>>
    /\ errors = <<>>
    /\ values = <<>>
    /\ history = <<>>

(***************************************************************************)
(* SpecValue: get_variable_value applied to one line.                      *)
(***************************************************************************)
InitValue ==
    /\ InitObject
    /\ call \in {[op |-> "pending", arg |-> in, line |-> Render(in), ret |-> PyNone] :
                    in \in ValueInputs}

GetVariableValue ==
    /\ call.op = "pending"
    /\ call' = [call EXCEPT !.op = "get_variable_value",
                            !.ret = get_variable_value(call.line)]
    /\ UNCHANGED objvars

NextValue == GetVariableValue

SpecValue == InitValue /\ [][NextValue]_vars

Returned == call.op = "get_variable_value"

(***************************************************************************)
(* Scope declarations.                                                     *)
(***************************************************************************)
\* is_valid_scope_definition as it would be if no comment could follow the bracket.
is_valid_scope_definition_bare(line) ==
    LET a == SkipSpaces(line, 0)
        b == SkipSpaces(line, a + 1)
        c == SkipSpaces(line, DottedEnd(line, scope_char_set, b))
    IN  /\ StartsAt(line, <<"[">>, a)
        /\ StartsAt(line, <<"]">>, c)
        /\ SkipSpaces(line, c + 1) = Len(line)

\* ^\s*\[\s*(?:[scope]+(?:\.[scope]+)*)?\s*\]\s*(?:(comment start).*)?$
is_valid_scope_definition(line) ==
    LET a == SkipSpaces(line, 0)
        b == SkipSpaces(line, a + 1)
        c == SkipSpaces(line, DottedEnd(line, scope_char_set, b))
    IN  /\ StartsAt(line, <<"[">>, a)
        /\ StartsAt(line, <<"]">>, c)
        /\ TailMatches(line, c + 1)

\* set_scope as it would be if a declaration were joined to the scope before it.
set_scope_merged(line, scope) ==
    LET a == SkipSpaces(line, 0)
        b == SkipSpaces(line, a + 1)
        e == DottedEnd(line, scope_char_set, b)
        c == SkipSpaces(line, e)
    IN  IF StartsAt(line, <<"[">>, a) /\ StartsAt(line, <<"]">>, c)
           /\ TailMatches(line, c + 1)
        THEN (IF e > b
              THEN (IF scope = PyNone \/ scope = <<>> THEN <<>>
                    ELSE scope \o scope_delimiter) \o Slice(line, b, e)
              ELSE PyNone)
        ELSE scope

\* set_scope as it would be if an empty bracket left the scope as it was.
set_scope_keeps_on_empty(line, scope) ==
    LET a == SkipSpaces(line, 0)
        b == SkipSpaces(line, a + 1)
        e == DottedEnd(line, scope_char_set, b)
        c == SkipSpaces(line, e)
    IN  IF StartsAt(line, <<"[">>, a) /\ StartsAt(line, <<"]">>, c)
           /\ TailMatches(line, c + 1) /\ e > b
        THEN Slice(line, b, e)
        ELSE scope

\* Same pattern with the dotted name as group 1; the new value of current_scope.
\* group(1) of a match whose optional group took no part is None.
set_scope(line, scope) ==
    LET a == SkipSpaces(line, 0)
        b == SkipSpaces(line, a + 1)
        e == DottedEnd(line, scope_char_set, b)
        c == SkipSpaces(line, e)
    IN  IF StartsAt(line, <<"[">>, a) /\ StartsAt(line, <<"]">>, c)
           /\ TailMatches(line, c + 1)
        THEN (IF e > b THEN Slice(line, b, e) ELSE PyNone)
        ELSE scope

(***************************************************************************)
(* The value store: a mapping from key text to the list of its values.     *)
(***************************************************************************)
Has(vals, key) == key \in DOMAIN vals

Put(vals, key, list) ==
    [k \in (DOMAIN vals) \cup {key} |-> IF k = key THEN list ELSE vals[k]]

\* self.values[key].append(value), the entry created when absent
Record(vals, key, value) ==
    Put(vals, key, (IF Has(vals, key) THEN vals[key] ELSE <<>>) \o <<value>>)

\* preload: a default is [list |-> whether it is a list, v |-> the list or the scalar].
RECURSIVE PreloadItems(_, _, _)
PreloadItems(vals, defaults, names) ==
    IF names = {} THEN vals
    ELSE LET name == CHOOSE n \in names : TRUE
             value == defaults[name]
             next == IF ~Has(vals, name)
                     THEN Put(vals, name, IF value.list THEN value.v ELSE <<value.v>>)
                     ELSE vals
         IN  PreloadItems(next, defaults, names \ {name})

\* preload as it would be without the test `not name in self.values`.
preload_overwriting(vals, defaults) ==
    [k \in (DOMAIN vals) \cup (DOMAIN defaults) |->
        IF k \in DOMAIN defaults
        THEN (IF defaults[k].list THEN defaults[k].v ELSE <<defaults[k].v>>)
        ELSE vals[k]]

preload(vals, defaults) == PreloadItems(vals, defaults, DOMAIN defaults)

\* A line that is empty, whitespace, or a comment: ^\s*(?:(comment start).*)?$
is_blank_or_comment(line) == TailMatches(line, 0)

\* The prefix the current scope puts before a variable name; the root scope puts none.
ScopePrefix(scope) ==
    IF scope = PyNone \/ scope = <<>> THEN <<>> ELSE scope \o scope_delimiter

ErrNoFile ==
    "Cannot load file; no file was given. (Note: you cannot load() a query result.)"

ErrUnreadable == "Cannot load file; file does not exist or is not readable."

ErrUnknown == "Cannot load file; unknown file error."

ErrLine == "Invalid line"

\* process_line: the new <<current_scope, values, errors>>.
process_line(line_num, line, scope, vals, errs) ==
    IF is_blank_or_comment(line) THEN <<scope, vals, errs>>
    ELSE IF is_valid_scope_definition(line) THEN <<set_scope(line, scope), vals, errs>>
    ELSE IF has_valid_variable_name(line)
         THEN <<scope,
                Record(vals, ScopePrefix(scope) \o get_variable_name(line),
                       get_variable_value(line)),
                errs>>
    ELSE <<scope, vals, Append(errs, [line |-> line_num, msg |-> ErrLine])>>

(***************************************************************************)
(* Queries.                                                                *)
(***************************************************************************)
get_array(vals, key) == IF Has(vals, key) THEN vals[key] ELSE <<>>

\* The keys below prefix, the prefix and its delimiter taken off.
ScopedView(vals, prefix) ==
    LET head == prefix \o scope_delimiter
        below == {k \in DOMAIN vals : Len(k) > Len(head) /\ StartsAt(k, head, 0)}
    IN  [k \in {Slice(f, Len(head), Len(f)) : f \in below} |-> vals[head \o k]]

\* get: [tag |-> "value", v |-> the value], [tag |-> "view", v |-> the scoped
\* store] or [tag |-> "default", v |-> default].
get(vals, key, default) ==
    IF Has(vals, key) /\ vals[key] # <<>> THEN [tag |-> "value", v |-> vals[key][1]]
    ELSE LET view == ScopedView(vals, key)
         IN  IF DOMAIN view # {} THEN [tag |-> "view", v |-> view]
             ELSE [tag |-> "default", v |-> default]

\* The first segment of a key: the text before its first scope delimiter.
FirstSegment(key) ==
    LET d == Find(key, scope_delimiter, 0)
    IN  IF d = -1 THEN key ELSE Slice(key, 0, d)

enumerate_scope(vals, prefix) ==
    IF prefix = <<>> THEN {FirstSegment(k) : k \in DOMAIN vals}
    ELSE {FirstSegment(k) : k \in DOMAIN ScopedView(vals, prefix)}

(***************************************************************************)
(* What the claims about get_variable_value speak of.                      *)
(***************************************************************************)
\* Every character of s is in alphabet.
Over(s, alphabet) == \A i \in 1..Len(s) : s[i] \in alphabet

Contains(s, sub) == Find(s, sub, 0) # -1

Count(s, ch) == Cardinality({i \in 1..Len(s) : s[i] = ch})

\* The earliest index at which any comment start occurs, Len(s) when none does.
EarliestMarker(s) ==
    LET at == {i \in 0..(Len(s) - 1) : CommentAt(s, i)}
    IN  IF at = {} THEN Len(s) ELSE SetMin(at)

\* The number of escape characters that stand directly before index p.
RECURSIVE EscapesBefore(_, _)
EscapesBefore(s, p) ==
    IF p >= 1 /\ At(s, p - 1) = escape_char THEN 1 + EscapesBefore(s, p - 1) ELSE 0

\* s is a well-formed quoted value: it opens with a quote, a later quote that is
\* not escaped closes it, and only whitespace or a comment follows that quote.
WellFormedQuoted(s) ==
    /\ s # <<>>
    /\ Head(s) = quote_char
    /\ LET closers == {p \in 1..(Len(s) - 1) :
                          At(s, p) = quote_char /\ EscapesBefore(s, p) % 2 = 0}
       IN  closers # {} /\ TailMatches(s, SetMin(closers) + 1)

\* C1: for every string S over an alphabet with the quote and the escape character,
\* the line k = "escape(S)" is detected as a quoted value and its value is S.
C1_RoundTrip ==
    (/\ Returned
     /\ call.arg.kind = "quoted"
     /\ call.arg.trail = <<>>
     /\ Over(call.arg.body, {"a", quote_char, escape_char}))
    => (has_quoted_value(call.line) /\ call.ret = call.arg.body)

\* C2: a quoted content that holds a comment marker or the assignment delimiter is
\* accepted by has_quoted_value and extracted whole, from quote to quote.
C2_SpecialsLiteral ==
    (/\ Returned
     /\ call.arg.kind = "quoted"
     /\ Over(call.arg.body, {"a", " ", "#", "/", "="})
     /\ \/ Contains(call.arg.body, var_val_delimiter)
        \/ \E k \in 1..Len(line_comment_start) :
              Contains(call.arg.body, line_comment_start[k]))
    => (has_quoted_value(call.line) /\ call.ret = call.arg.body)

\* C3: a value that starts with a quote and is not a well-formed quoted value is
\* extracted by the unquoted rules: the quotes before the comment are all kept and
\* the result is not empty.
C3_FallbackKeepsQuotes ==
    LET rest == LStrip(call.arg.body)
    IN  (/\ Returned
         /\ call.arg.kind = "unquoted"
         /\ rest # <<>>
         /\ Head(rest) = quote_char
         /\ ~WellFormedQuoted(rest))
        => (/\ call.ret # <<>>
            /\ Count(call.ret, quote_char)
                 = Count(Slice(rest, 0, EarliestMarker(rest)), quote_char))

\* C4: an unquoted value is the text after the delimiter up to the earliest comment
\* marker, trimmed, also when the marker is at index 0; the whole remainder, trimmed,
\* when there is no marker.
C4_EarliestCommentCut ==
    (/\ Returned
     /\ call.arg.kind = "unquoted"
     /\ Over(call.arg.body, {"a", " ", "#", "/", "="}))
    => call.ret = Strip(Slice(call.arg.body, 0, EarliestMarker(call.arg.body)))

\* C8: a line that holds a valid variable name and no assignment, optionally
\* followed by a comment, has the value boolean true.
C8_FlagIsTrue ==
    (Returned /\ call.arg.kind = "flag") => call.ret = PyTrue

(***************************************************************************)
(* load and reset.  disk is what the file system holds at the path.        *)
(***************************************************************************)
\* The loop of load: process_line over enumerate(lines), from index n on.
RECURSIVE ProcessLines(_, _, _, _, _)
ProcessLines(n, lines, scope, vals, errs) ==
    IF n >= Len(lines) THEN <<scope, vals, errs>>
    ELSE LET r == process_line(n, At(lines, n), scope, vals, errs)
         IN  ProcessLines(n + 1, lines, r[1], r[2], r[3])

\* load: <<loaded, current_scope, values, errors, returned value>>.
load(path, is_loaded, disk, scope, vals, errs) ==
    IF is_loaded THEN <<is_loaded, scope, vals, errs, PyTrue>>
    ELSE IF path = PyNone
         THEN <<FALSE, scope, vals, Append(errs, [line |-> -1, msg |-> ErrNoFile]), PyFalse>>
    ELSE IF disk.is_file /\ disk.readable
         THEN <<FALSE, scope, vals, Append(errs, [line |-> -1, msg |-> ErrUnreadable]),
                PyFalse>>
    ELSE LET opened == disk.readable
             errs1 == IF opened THEN errs
                      ELSE Append(errs, [line |-> -1, msg |-> ErrUnknown])
             r == ProcessLines(0, IF opened THEN disk.lines ELSE <<>>, scope, vals, errs1)
         IN  IF Len(r[3]) > 0 THEN <<FALSE, r[1], r[2], r[3], PyFalse>>
             ELSE <<TRUE, r[1], r[2], r[3], PyTrue>>

(***************************************************************************)
(* The lines and defaults the object is driven with.  A line is given by   *)
(* what it says (kind, segments, value) and rendered to text.              *)
(***************************************************************************)
MaxCalls == 3

SegA == <<"a">>

SegB == <<"b">>

SegC == <<"c">>

SegK == <<"k">>

RECURSIVE Join(_)
Join(segs) ==
    IF segs = <<>> THEN <<>>
    ELSE IF Len(segs) = 1 THEN segs[1]
    ELSE segs[1] \o scope_delimiter \o Join(Tail(segs))

FileLine(kind, segs, val, dressed) ==
    [kind |-> kind, segs |-> segs, val |-> val, dressed |-> dressed]

FileLines ==
    { FileLine("scope", <<>>, PyNone, FALSE),
      FileLine("scope", <<SegA>>, PyNone, FALSE),
      FileLine("scope", <<SegA, SegB>>, PyNone, FALSE),
      FileLine("scope", <<SegB>>, PyNone, TRUE),
      FileLine("assign", <<SegC>>, <<"1">>, FALSE),
      FileLine("assign", <<SegC>>, <<"2">>, TRUE),
      FileLine("assign", <<SegB, SegC>>, <<"1">>, FALSE),
      FileLine("flag", <<SegK>>, PyTrue, FALSE),
      FileLine("blank", <<>>, PyNone, TRUE),
      FileLine("malformed", <<SegA, <<>>, SegB>>, <<"c">>, FALSE) }

RenderLine(l) ==
    LET body == CASE l.kind = "scope" -> <<"[">> \o Join(l.segs) \o <<"]">>
                  [] l.kind \in {"assign", "malformed"} ->
                        Join(l.segs) \o <<" ", "=", " ">> \o l.val
                  [] l.kind = "flag" -> Join(l.segs)
                  [] l.kind = "blank" -> <<>>
    IN  IF l.dressed THEN <<" ">> \o body \o <<" ", "#", "x">> ELSE body

Scalar(v) == [list |-> FALSE, v |-> v]

List(v) == [list |-> TRUE, v |-> v]

DefaultsPool ==
    { [k \in {Join(<<SegC>>)} |-> Scalar(<<"9">>)],
      [k \in {Join(<<SegA, SegC>>), Join(<<SegK>>)} |->
          IF k = Join(<<SegK>>) THEN Scalar(PyFalse) ELSE List(<< <<"7">>, <<"8">> >>)] }

\* What the file system holds at the path: whether it is a regular file, whether
\* it can be read, what its lines say and their text.
File(is_file, readable, says) ==
    [is_file |-> is_file, readable |-> readable, says |-> says,
     lines |-> [i \in 1..Len(says) |-> RenderLine(says[i])]]

\* A file of well-formed lines: it begins with a root scope assignment and ends
\* inside a bracketed scope.
WellFormedFile ==
    File(TRUE, TRUE, << FileLine("assign", <<SegC>>, <<"1">>, FALSE),
                        FileLine("scope", <<SegA>>, PyNone, FALSE),
                        FileLine("assign", <<SegC>>, <<"2">>, TRUE) >>)

\* A file with a malformed line between well-formed ones.
MixedFile ==
    File(TRUE, TRUE, << FileLine("assign", <<SegC>>, <<"1">>, FALSE),
                        FileLine("malformed", <<SegA, <<>>, SegB>>, <<"c">>, FALSE),
                        FileLine("flag", <<SegK>>, PyTrue, FALSE) >>)

\* No file at the path.
MissingFile == File(FALSE, FALSE, <<>>)

Disks == {WellFormedFile, MixedFile, MissingFile}

(***************************************************************************)
(* Spec: the object driven by its operations.  history is the sequence of  *)
(* calls made so far, call the last one.                                   *)
(***************************************************************************)
Init ==
    /\ InitObject
    /\ call \in {Constructed(file_to_open) : file_to_open \in ConstructorArgs}

Called(op, arg, text, ret) ==
    /\ history' = Append(history, [op |-> op, arg |-> arg])
    /\ call' = [op |-> op, arg |-> arg, line |-> text, ret |-> ret]

ProcessLine ==
    \E l \in FileLines :
        /\ Len(history) < MaxCalls
        /\ current_scope' =
              process_line(Len(history), RenderLine(l), current_scope, values, errors)[1]
        /\ values' =
              process_line(Len(history), RenderLine(l), current_scope, values, errors)[2]
        /\ errors' =
              process_line(Len(history), RenderLine(l), current_scope, values, errors)[3]
        /\ Called("process_line", l, RenderLine(l), PyNone)
        /\ UNCHANGED <<file_path, loaded>>

Preload ==
    \E defaults \in DefaultsPool :
        /\ Len(history) < MaxCalls
        /\ values' = preload(values, defaults)
        /\ Called("preload", defaults, <<>>, PyNone)
        /\ UNCHANGED <<file_path, loaded, current_scope, errors>>

Reset ==
    /\ Len(history) < MaxCalls
    /\ loaded' = FALSE
    /\ errors' = <<>>
    /\ values' = <<>>
    /\ Called("reset", PyNone, <<>>, PyNone)
    /\ UNCHANGED <<file_path, current_scope>>

Load ==
    \E disk \in Disks :
        /\ Len(history) < MaxCalls
        /\ loaded' = load(file_path, loaded, disk, current_scope, values, errors)[1]
        /\ current_scope' = load(file_path, loaded, disk, current_scope, values, errors)[2]
        /\ values' = load(file_path, loaded, disk, current_scope, values, errors)[3]
        /\ errors' = load(file_path, loaded, disk, current_scope, values, errors)[4]
        /\ history' = Append(history, [op |-> "load", arg |-> PyNone])
        /\ call' = [op |-> "load", arg |-> disk, line |-> <<>>,
                    ret |-> load(file_path, loaded, disk, current_scope, values, errors)[5]]
        /\ UNCHANGED file_path

Next == ProcessLine \/ Preload \/ Reset \/ Load

Spec == Init /\ [][Next]_vars

(***************************************************************************)
(* What the calls made so far say, read from history alone: the scope each *)
(* line stands in, the keys assigned and the values given to each.         *)
(***************************************************************************)
SetMax(S) == CHOOSE x \in S : \A y \in S : y <= x

IsLine(e, kinds) == e.op = "process_line" /\ e.arg.kind \in kinds

\* The segments of the most recent scope declaration among the first n calls.
RefScope(h, n) ==
    LET decls == {i \in 1..n : IsLine(h[i], {"scope"})}
    IN  IF decls = {} THEN <<>> ELSE h[SetMax(decls)].arg.segs

\* The segments of the key that line n assigns.
RefKeySegs(h, n) == RefScope(h, n - 1) \o h[n].arg.segs

LastReset(h) ==
    LET resets == {i \in 1..Len(h) : h[i].op = "reset"}
    IN  IF resets = {} THEN 0 ELSE SetMax(resets)

\* The assignments and flags processed since the store was last emptied.
Recorded(h) == {n \in (LastReset(h) + 1)..Len(h) : IsLine(h[n], {"assign", "flag"})}

Preloads(h) == {n \in (LastReset(h) + 1)..Len(h) : h[n].op = "preload"}

RECURSIVE RefArrayFrom(_, _, _)
RefArrayFrom(h, key, n) ==
    IF n > Len(h) THEN <<>>
    ELSE (IF n \in Recorded(h) /\ Join(RefKeySegs(h, n)) = key THEN <<h[n].arg.val>>
          ELSE <<>>) \o RefArrayFrom(h, key, n + 1)

\* The values the lines assign to key, in line order.
RefArray(h, key) == RefArrayFrom(h, key, LastReset(h) + 1)

AssignedKeys(h) == {Join(RefKeySegs(h, n)) : n \in Recorded(h)}

SeededKeys(h) == UNION {DOMAIN h[n].arg : n \in Preloads(h)}

\* A preload named key before any line assigned it.
SeededFirst(h, key) ==
    \E m \in Preloads(h) :
        /\ key \in DOMAIN h[m].arg
        /\ \A n \in Recorded(h) : Join(RefKeySegs(h, n)) = key => n > m

\* The segments of a key text.
RECURSIVE Split(_)
Split(key) ==
    LET d == Find(key, scope_delimiter, 0)
    IN  IF d = -1 THEN <<key>>
        ELSE <<Slice(key, 0, d)>> \o Split(Slice(key, d + Len(scope_delimiter), Len(key)))

\* The segment lists of all keys assigned or seeded.
RefKeys(h) ==
    {RefKeySegs(h, n) : n \in Recorded(h)} \cup {Split(k) : k \in SeededKeys(h)}

ProperPrefix(p, k) == Len(p) < Len(k) /\ SubSeq(k, 1, Len(p)) = p

MaxQueryDepth == 2

QuerySegs == {SegA, SegB, SegC, SegK}

\* The keys asked for, as segment lists.
QueryKeys == UNION {[1..m -> QuerySegs] : m \in 1..MaxQueryDepth}

QueryDefaults == {PyNone, <<"d">>}

\* The line processed by the step, when the step is a process_line of an
\* assignment or a flag.
AssignmentStep ==
    /\ Len(history') = Len(history) + 1
    /\ IsLine(history'[Len(history')], {"assign", "flag"})

PreloadStep ==
    /\ Len(history') = Len(history) + 1
    /\ history'[Len(history')].op = "preload"

AsList(default) == IF default.list THEN default.v ELSE <<default.v>>

C6_DefaultForUnassigned ==
    LET keys == RefKeys(history)
    IN  \A segs \in QueryKeys \ keys : \A d \in QueryDefaults :
            LET got == get(values, Join(segs), d)
            IN  got.tag = "default" /\ got.v = d

\* C6, amended: for every key never assigned that is not a proper dotted prefix
\* of an assigned key, get returns the default; for a never assigned key that is
\* such a prefix, get returns the scoped view of the keys below it.
C6_DefaultOrView ==
    LET keys == RefKeys(history)
    IN  \A segs \in QueryKeys \ keys : \A d \in QueryDefaults :
            LET got == get(values, Join(segs), d)
                below == {r \in keys : ProperPrefix(segs, r)}
            IN  IF below # {}
                THEN /\ got.tag = "view"
                     /\ DOMAIN got.v
                          = {Join(SubSeq(k, Len(segs) + 1, Len(k))) : k \in below}
                ELSE got.tag = "default" /\ got.v = d

C6_Witness ==
    LET keys == RefKeys(history)
    IN  /\ \E segs \in QueryKeys \ keys :
              /\ \E k \in keys : ProperPrefix(segs, k)
              /\ get(values, Join(segs), <<"d">>).tag = "view"
        /\ \E segs \in QueryKeys \ keys :
              /\ ~\E k \in keys : ProperPrefix(segs, k)
              /\ get(values, Join(segs), <<"d">>).v = <<"d">>
        /\ keys # {}

\* C7: an assignment is recorded under the segments of the most recent valid scope
\* declaration followed by its own name, and under no other key; a declaration
\* replaces the scope before it, and without one the key is the bare name.
C7_ScopePrecedence ==
    [][AssignmentStep =>
         LET key == Join(RefKeySegs(history', Len(history')))
         IN  /\ key \in DOMAIN values'
             /\ Len(values'[key]) = Len(get_array(values, key)) + 1
             /\ \A k \in (DOMAIN values') \ {key} :
                   k \in DOMAIN values /\ values'[k] = values[k]]_vars

C7_Witness ==
    /\ Len(history) = 3
    /\ IsLine(history[1], {"scope"}) /\ history[1].arg.segs = <<SegA, SegB>>
    /\ IsLine(history[2], {"scope"}) /\ history[2].arg.segs = <<SegB>>
    /\ IsLine(history[3], {"assign"}) /\ history[3].arg.segs = <<SegC>>
    /\ DOMAIN values = {Join(<<SegB, SegC>>)}

C10_EnumerateScope ==
    LET keys == RefKeys(history)
    IN  \A p \in QueryKeys :
            enumerate_scope(values, Join(p))
              = {k[Len(p) + 1] : k \in {r \in keys : ProperPrefix(p, r)}}

C10_Witness ==
    LET keys == RefKeys(history)
    IN  \E p \in QueryKeys :
            /\ Cardinality(enumerate_scope(values, Join(p))) >= 2
            /\ \E k \in keys : ProperPrefix(p, k) /\ Len(k) > Len(p) + 1
            /\ \E k \in keys : ~ProperPrefix(p, k)

(***************************************************************************)
(* What the claims about load and reset speak of.                          *)
(***************************************************************************)
\* The lines of a file as the calls that a pass over them makes.
AsCalls(says) == [i \in 1..Len(says) |-> [op |-> "process_line", arg |-> says[i]]]

\* The positions, from 0, of the malformed lines of a file.
MalformedAt(says) == {i - 1 : i \in {j \in 1..Len(says) : says[j].kind = "malformed"}}

\* The file exists, is a regular file and can be read.
Readable(disk) == disk.is_file /\ disk.readable

\* The step is a call of load.
LoadStep ==
    /\ Len(history') = Len(history) + 1
    /\ call'.op = "load"

\* The segments of the most recent scope declaration among calls m+1..n; none is
\* the root scope.
RefScopeSince(h, m, n) ==
    LET decls == {i \in (m + 1)..n : IsLine(h[i], {"scope"})}
    IN  IF decls = {} THEN <<>> ELSE h[SetMax(decls)].arg.segs

\* C11: a load of a readable file, by the object constructed with its path,
\* records every well-formed assignment of the file under its key, in line order,
\* and nothing else; every malformed line adds an error carrying its line number
\* and no value; load returns false exactly when the error list is non-empty.
C11_MalformedNonFatal ==
    [][(/\ call.op = "__init__"
        /\ call.arg = test1_file
        /\ LoadStep
        /\ Readable(call'.arg)) =>
           LET h == AsCalls(call'.arg.says)
           IN  /\ DOMAIN values' = AssignedKeys(h)
               /\ \A key \in AssignedKeys(h) : get_array(values', key) = RefArray(h, key)
               /\ {errors'[j].line : j \in 1..Len(errors')} = MalformedAt(call'.arg.says)
               /\ call'.ret = PyFalse <=> errors' # <<>>
               /\ call'.ret \in {PyTrue, PyFalse}]_vars

\* C12: constructed with the path of an existing readable file whose lines are
\* all well-formed, load returns True, leaves the error list empty and sets
\* loaded; it reports neither "no file was given" nor "does not exist or is not
\* readable".
C12_LoadsGivenFile ==
    [][(/\ call.op = "__init__"
        /\ call.arg = test1_file
        /\ LoadStep
        /\ Readable(call'.arg)
        /\ MalformedAt(call'.arg.says) = {}) =>
           /\ call'.ret = PyTrue
           /\ errors' = <<>>
           /\ loaded'
           /\ \A j \in 1..Len(errors') : errors'[j].msg \notin {ErrNoFile, ErrUnreadable}]_vars

\* C13: the empty bracket line is a scope declaration that makes the current
\* scope the root scope, the value it has when no scope was declared, and an
\* assignment after it is recorded under its bare name.
C13_EmptyBracketIsRoot ==
    /\ \A l \in FileLines :
          (l.kind = "scope" /\ l.segs = <<>>) => is_valid_scope_definition(RenderLine(l))
    /\ (call.op = "process_line" /\ call.arg.kind = "scope" /\ call.arg.segs = <<>>) =>
          current_scope = <<>>
    /\ \A n \in Recorded(history) :
          (n > 1 /\ IsLine(history[n - 1], {"scope"}) /\ history[n - 1].arg.segs = <<>>) =>
              get_array(values, Join(history[n].arg.segs)) # <<>>

\* C14: after reset the object parses as it did when constructed: loaded is
\* false, the errors and the store are empty and the current scope puts no
\* prefix before a name, so that every line processed after the reset is
\* recorded under the scope declared since the reset alone.
C14_ResetRestores ==
    /\ call.op = "reset" =>
          /\ loaded = FALSE
          /\ errors = <<>>
          /\ values = <<>>
          /\ ScopePrefix(current_scope) = <<>>
    /\ LastReset(history) > 0 =>
          \A n \in Recorded(history) :
              Join(RefScopeSince(history, LastReset(history), n - 1) \o history[n].arg.segs)
                  \in DOMAIN values

\* C15: a second load of the same file, with no reset between, returns what the
\* first returned and leaves the store and the error list as the first left
\* them, whether the first succeeded or failed.
C15_LoadIdempotent ==
    [][(call.op = "load" /\ LoadStep /\ call'.arg = call.arg) =>
           /\ call'.ret = call.ret
           /\ values' = values
           /\ errors' = errors]_vars

=============================================================================
